---- MODULE Spec2Model ----
(***************************************************************************)
(* Array interop layer (pyutils.cpp) of the ISA Python extension.          *)
(* The binding object's entry points are only declared (isainterface.h);   *)
(* their bodies are not part of these sources and are not modelled.        *)
(*                                                                         *)
(* Memory is a heap of blocks of float slots; a pointer is a block index,  *)
(* 0 is the null pointer.  A native matrix and a host array are headers    *)
(* that point into the heap, so copying and aliasing are distinguishable.  *)
(***************************************************************************)
EXTENDS Integers, Sequences, FiniteSets, TLC

\* ---------------------------------------------------------------- bounds
MaxDim == 3
MaxBlocks == 4
MaxWrites == 1

\* ------------------------------------------------------------ arithmetic
RECURSIVE Prod(_)
Prod(s) == IF s = <<>> THEN 1 ELSE Head(s) * Prod(Tail(s))

Iota(n) == [k \in 1..n |-> k]

\* Offset of logical element (i, j) in the flat storage of a rows x cols
\* matrix (Eigen's RowMajor / ColMajor storage orders).
Offset(rowMajorOrder, rows, cols, i, j) ==
    IF rowMajorOrder THEN i * cols + j ELSE i + j * rows

\* Logical row / column of the k-th (1-based) slot of the flat storage.
RowOf(rowMajorOrder, rows, cols, k) ==
    IF rowMajorOrder THEN (k - 1) \div cols ELSE (k - 1) % rows
ColOf(rowMajorOrder, rows, cols, k) ==
    IF rowMajorOrder THEN (k - 1) % cols ELSE (k - 1) \div rows

\* ------------------------------------------------------- native matrices
NoMatrix == [rows |-> -1, cols |-> -1, rowMajorOrder |-> FALSE, blk |-> 0]

Rows(m) == 0..(m.rows - 1)
Cols(m) == 0..(m.cols - 1)

\* mat(i, j) of a MatrixXf header m over heap h.
MatElem(h, m, i, j) ==
    h[m.blk][Offset(m.rowMajorOrder, m.rows, m.cols, i, j) + 1]

\* ----------------------------------------------------------- host arrays
\* NumPy array header: type is PyArray_DESCR(a)->type ('f' is float32),
\* strides are counted in elements, flags is the subset of
\* {NPY_C_CONTIGUOUS, NPY_F_CONTIGUOUS} the header carries.
NoArray == [type |-> "none", nd |-> -1, dims |-> <<>>, strides |-> <<>>,
            flags |-> {}, blk |-> 0]

Types == {"f", "d"}

\* Strides NumPy fills in for a freshly allocated array (a zero dimension
\* does not scale the strides that follow it).
CStrides(dims) ==
    [i \in 1..Len(dims) |->
        Prod([k \in 1..(Len(dims) - i) |->
                 IF dims[i + k] = 0 THEN 1 ELSE dims[i + k]])]
FStrides(dims) ==
    [i \in 1..Len(dims) |->
        Prod([k \in 1..(i - 1) |-> IF dims[k] = 0 THEN 1 ELSE dims[k]])]

\* NumPy's contiguity of a (dims, strides) pair: an array with a zero
\* dimension is both; dimensions of extent 1 do not constrain the strides.
IsCContiguous(dims, strides) ==
    \/ \E i \in 1..Len(dims) : dims[i] = 0
    \/ \A i \in 1..Len(dims) :
          dims[i] # 1 => strides[i] = Prod(SubSeq(dims, i + 1, Len(dims)))
IsFContiguous(dims, strides) ==
    \/ \E i \in 1..Len(dims) : dims[i] = 0
    \/ \A i \in 1..Len(dims) :
          dims[i] # 1 => strides[i] = Prod(SubSeq(dims, 1, i - 1))
Contiguity(dims, strides) ==
    (IF IsCContiguous(dims, strides) THEN {"C"} ELSE {}) \cup
    (IF IsFContiguous(dims, strides) THEN {"F"} ELSE {})

\* Number of slots a (dims, strides) pair spans.
RECURSIVE SpanSum(_, _)
SpanSum(dims, strides) ==
    IF dims = <<>> THEN 0
    ELSE (Head(dims) - 1) * Head(strides) + SpanSum(Tail(dims), Tail(strides))
Span(dims, strides) ==
    IF \E i \in 1..Len(dims) : dims[i] = 0 THEN 0
    ELSE 1 + SpanSum(dims, strides)

\* The array's logical element a[i, j] (a[i] for a 1-D array, j = 0).
BufElem(h, a, i, j) ==
    h[a.blk][i * a.strides[1] + (IF a.nd = 2 THEN j * a.strides[2] ELSE 0) + 1]


\* ------------------------------------------------- PyArray_FromMatrixXf
\* PyArray_New(&PyArray_Type, 2, dims, NPY_FLOAT, 0, 0, sizeof(float), flags, 0)
\* with strides = 0 and data = 0: NumPy allocates the memory itself, and
\* "flags can be non-zero to indicate a Fortran-style contiguous array"
\* (NumPy C-API): any non-zero flags argument, NPY_C_CONTIGUOUS included,
\* yields column-major strides; the header's flags are then derived from
\* the strides.  A failed allocation returns the null pointer.
PyArray_New(h, dims, flags, allocOK) ==
    IF ~allocOK THEN [heap |-> h, array |-> NoArray]
    ELSE LET strides == IF flags # {} THEN FStrides(dims) ELSE CStrides(dims)
         IN [heap  |-> Append(h, [k \in 1..Prod(dims) |-> 0]),
             array |-> [type |-> "f", nd |-> 2, dims |-> dims,
                        strides |-> strides,
                        flags |-> Contiguity(dims, strides),
                        blk |-> Len(h) + 1]]

\* The flags argument the build passes (#ifdef EIGEN_DEFAULT_TO_ROW_MAJOR).
NewFlags(rowMajorBuild) == IF rowMajorBuild THEN {"C"} ELSE {"F"}

\* for(i < mat.size()) dataCopy[i] = data[i]
CopyLoop(h, dst, src, n) ==
    [h EXCEPT ![dst] = [k \in 1..n |-> h[src][k]]]

\* The aliasing variant of the conversion: the array wraps the matrix's own
\* storage instead of a fresh allocation.
FromMatrixXfAliasing(h, m, rowMajorBuild, allocOK) ==
    {[heap |-> h,
      array |-> [type |-> "f", nd |-> 2, dims |-> <<m.rows, m.cols>>,
                 strides |-> IF rowMajorBuild THEN CStrides(<<m.rows, m.cols>>)
                             ELSE FStrides(<<m.rows, m.cols>>),
                 flags |-> Contiguity(<<m.rows, m.cols>>,
                             IF rowMajorBuild THEN CStrides(<<m.rows, m.cols>>)
                             ELSE FStrides(<<m.rows, m.cols>>)),
                 blk |-> m.blk],
      err |-> "", fault |-> ""]}

\* The set of outcomes of PyArray_FromMatrixXf(mat).  The result of
\* PyArray_New is not tested: after a failed allocation PyArray_DATA(array)
\* reads through the null pointer, which is undefined; the build either
\* traps there, or (only while no element is copied, so that the loaded
\* pointer is dead) drops the load and returns the null pointer with the
\* allocator's MemoryError still pending.
PyArray_FromMatrixXf(h, m, rowMajorBuild, allocOK) ==
    LET dims == <<m.rows, m.cols>>
        new  == PyArray_New(h, dims, NewFlags(rowMajorBuild), allocOK)
        size == m.rows * m.cols
    IN IF new.array # NoArray
       THEN {[heap  |-> CopyLoop(new.heap, new.array.blk, m.blk, size),
              array |-> new.array, err |-> "", fault |-> ""]}
       ELSE {[heap |-> h, array |-> NoArray, err |-> "", fault |-> "segv"]}
            \cup (IF size = 0
                  THEN {[heap |-> h, array |-> NoArray,
                         err |-> "MemoryError", fault |-> ""]}
                  ELSE {})

\* --------------------------------------------------- PyArray_ToMatrixXf
TypeMsg   == "Can only handle arrays of float values."
ContigMsg == "Data must be stored in contiguous memory."
DimMsg    == "Can only handle one- or two-dimensional arrays."

Throw(h, msg) ==
    [heap |-> h, result |-> NoMatrix, err |-> msg, reads |-> {}]

\* Variant that returns the Map itself: a view over the array's memory.
MapAsView(h, blk, mapRowMajor, rows, cols, rowMajorBuild) ==
    [heap |-> h,
     result |-> [rows |-> rows, cols |-> cols,
                 rowMajorOrder |-> mapRowMajor, blk |-> blk],
     err |-> "",
     reads |-> {}]

\* Variant with the storage order of the Map ignored (a flat copy).
MapFlatCopy(h, blk, mapRowMajor, rows, cols, rowMajorBuild) ==
    [heap |-> Append(h, [k \in 1..(rows * cols) |-> h[blk][k]]),
     result |-> [rows |-> rows, cols |-> cols,
                 rowMajorOrder |-> rowMajorBuild, blk |-> Len(h) + 1],
     err |-> "",
     reads |-> 1..(rows * cols)]

\* return Map<Matrix<float, Dynamic, Dynamic, order> >(data, rows, cols)
\* from a function whose return type is MatrixXf: the Map expression is
\* converted to a MatrixXf, i.e. a new matrix in the build's storage order
\* is allocated and assigned the Map's coefficients (i, j).
MapToMatrixXf(h, blk, mapRowMajor, rows, cols, rowMajorBuild) ==
    [heap |-> Append(h,
         [k \in 1..(rows * cols) |->
             h[blk][Offset(mapRowMajor, rows, cols,
                           RowOf(rowMajorBuild, rows, cols, k),
                           ColOf(rowMajorBuild, rows, cols, k)) + 1]]),
     result |-> [rows |-> rows, cols |-> cols,
                 rowMajorOrder |-> rowMajorBuild, blk |-> Len(h) + 1],
     err |-> "",
     reads |-> 1..(rows * cols)]

\* Variant of the conversion with the rank tested before the element type.
ToMatrixXfRankFirst(h, a, rowMajorBuild) ==
    IF a.nd \notin {1, 2} THEN Throw(h, DimMsg)
    ELSE IF a.type # "f" THEN Throw(h, TypeMsg)
    ELSE IF "F" \in a.flags
    THEN MapToMatrixXf(h, a.blk, FALSE, a.dims[1],
                       IF a.nd = 1 THEN 1 ELSE a.dims[2], rowMajorBuild)
    ELSE IF "C" \in a.flags
    THEN MapToMatrixXf(h, a.blk, TRUE, a.dims[1],
                       IF a.nd = 1 THEN 1 ELSE a.dims[2], rowMajorBuild)
    ELSE Throw(h, ContigMsg)

\* Variant of the conversion that takes a 1-D array as a single row.
ToMatrixXfRowVector(h, a, rowMajorBuild) ==
    IF a.type # "f" THEN Throw(h, TypeMsg)
    ELSE IF a.nd \notin {1, 2} THEN Throw(h, DimMsg)
    ELSE IF "F" \in a.flags
    THEN MapToMatrixXf(h, a.blk, FALSE, IF a.nd = 1 THEN 1 ELSE a.dims[1],
                       IF a.nd = 1 THEN a.dims[1] ELSE a.dims[2], rowMajorBuild)
    ELSE IF "C" \in a.flags
    THEN MapToMatrixXf(h, a.blk, TRUE, IF a.nd = 1 THEN 1 ELSE a.dims[1],
                       IF a.nd = 1 THEN a.dims[1] ELSE a.dims[2], rowMajorBuild)
    ELSE Throw(h, ContigMsg)

PyArray_ToMatrixXf(h, a, rowMajorBuild) ==
    IF a.type # "f" THEN Throw(h, TypeMsg)
    ELSE IF a.nd = 1 THEN
        IF "F" \in a.flags
        THEN MapToMatrixXf(h, a.blk, FALSE, a.dims[1], 1, rowMajorBuild)
        ELSE IF "C" \in a.flags
        THEN MapToMatrixXf(h, a.blk, TRUE, a.dims[1], 1, rowMajorBuild)
        ELSE Throw(h, ContigMsg)
    ELSE IF a.nd = 2 THEN
        IF "F" \in a.flags
        THEN MapToMatrixXf(h, a.blk, FALSE, a.dims[1], a.dims[2], rowMajorBuild)
        ELSE IF "C" \in a.flags
        THEN MapToMatrixXf(h, a.blk, TRUE, a.dims[1], a.dims[2], rowMajorBuild)
        ELSE Throw(h, ContigMsg)
    ELSE Throw(h, DimMsg)


\* ------------------------------------------------------ caller's buffers
\* The strides a caller's array of the given shape may have: C order,
\* Fortran order, or every second row of a C-ordered parent (x[::2]).
StrideChoices(dims) ==
    {CStrides(dims), FStrides(dims),
     [i \in 1..Len(dims) |-> IF i = 1 THEN 2 * CStrides(dims)[i]
                                      ELSE CStrides(dims)[i]]}

\* Ranks of the caller's arrays, and their shapes: the extents of a 1-D or
\* 2-D array range over 0..MaxDim; those of another rank are never looked at.
Ranks == {0, 1, 2, 3}
Shapes(n) == IF n \in {1, 2} THEN [1..n -> 0..MaxDim] ELSE [1..n -> {1, 2}]

\* Headers (without storage) of the arrays a caller may pass: any element
\* type, any rank, and contiguity flags that are truthful about the strides.
BufferHeaders ==
    UNION {UNION {UNION {
        {[type |-> t, nd |-> n, dims |-> d, strides |-> st, flags |-> fl, blk |-> 0] :
            fl \in SUBSET Contiguity(d, st), t \in Types} :
        st \in StrideChoices(d)} :
        d \in Shapes(n)} :
        n \in Ranks}

\* The caller's array placed in memory; slot k of its storage holds k.
MakeBuffer(h, hdr) ==
    [heap  |-> Append(h, Iota(Span(hdr.dims, hdr.strides))),
     array |-> [hdr EXCEPT !.blk = Len(h) + 1]]

\* ------------------------------------------------------------ the state
VARIABLES
    rowMajor,   \* EIGEN_DEFAULT_TO_ROW_MAJOR is defined in this build
    heap,       \* memory blocks
    mat,        \* a native matrix held by the model
    array,      \* the host array the caller holds (NoArray: none)
    result,     \* the matrix the last PyArray_ToMatrixXf returned
    err,        \* the condition the last call surfaced ("" for none)
    reads,      \* slots of the array the last PyArray_ToMatrixXf read
    fault,      \* "" or the way the process died
    op,         \* the last operation
    chain,      \* "from": array = FromMatrixXf(mat), untouched since;
                \* "from_to": and result = ToMatrixXf(array)
    writes      \* number of element writes so far

vars == <<rowMajor, heap, mat, array, result, err, reads, fault, op, chain, writes>>

MatrixXf(h, rows, cols, rowMajorBuild) ==
    [heap |-> Append(h, Iota(rows * cols)),
     mat  |-> [rows |-> rows, cols |-> cols, rowMajorOrder |-> rowMajorBuild,
               blk |-> Len(h) + 1]]

Init ==
    /\ rowMajor \in BOOLEAN
    /\ \E rows \in 0..MaxDim, cols \in 0..MaxDim :
          /\ heap = MatrixXf(<<>>, rows, cols, rowMajor).heap
          /\ mat  = MatrixXf(<<>>, rows, cols, rowMajor).mat
    /\ array = NoArray
    /\ result = NoMatrix
    /\ err = ""
    /\ reads = {}
    /\ fault = ""
    /\ op = "init"
    /\ chain = "none"
    /\ writes = 0

\* The caller creates an array of its own.
NewBuffer ==
    /\ fault = ""
    /\ array = NoArray
    /\ Len(heap) < MaxBlocks
    /\ \E hdr \in BufferHeaders :
          /\ heap'  = MakeBuffer(heap, hdr).heap
          /\ array' = MakeBuffer(heap, hdr).array
    /\ result' = NoMatrix
    /\ err' = ""
    /\ reads' = {}
    /\ op' = "buffer"
    /\ chain' = "none"
    /\ UNCHANGED <<rowMajor, mat, fault, writes>>

\* array = PyArray_FromMatrixXf(mat)
CallFromMatrixXf ==
    /\ fault = ""
    /\ Len(heap) < MaxBlocks
    /\ \E allocOK \in BOOLEAN :
       \E out \in PyArray_FromMatrixXf(heap, mat, rowMajor, allocOK) :
          /\ heap'  = out.heap
          /\ array' = out.array
          /\ err'   = out.err
          /\ fault' = out.fault
          /\ op'    = IF allocOK THEN "from" ELSE "from_nomem"
          /\ chain' = IF out.array # NoArray THEN "from" ELSE "none"
    /\ result' = NoMatrix
    /\ reads' = {}
    /\ UNCHANGED <<rowMajor, mat, writes>>

\* result = PyArray_ToMatrixXf(array)
CallToMatrixXf ==
    /\ fault = ""
    /\ array # NoArray
    /\ Len(heap) < MaxBlocks
    /\ LET out == PyArray_ToMatrixXf(heap, array, rowMajor)
       IN /\ heap'   = out.heap
          /\ result' = out.result
          /\ err'    = out.err
          /\ reads'  = out.reads
          /\ chain'  = IF chain = "from" /\ out.err = "" THEN "from_to" ELSE "none"
    /\ op' = "to"
    /\ UNCHANGED <<rowMajor, mat, array, fault, writes>>

\* The caller stores 0 into slot k of its array.
WriteArray ==
    /\ fault = ""
    /\ array # NoArray
    /\ writes < MaxWrites
    /\ \E k \in 1..Len(heap[array.blk]) :
          heap' = [heap EXCEPT ![array.blk][k] = 0]
    /\ writes' = writes + 1
    /\ op' = "write_array"
    /\ chain' = "none"
    /\ UNCHANGED <<rowMajor, mat, array, result, err, reads, fault>>

\* The model stores 0 into slot k of its matrix.
WriteMat ==
    /\ fault = ""
    /\ writes < MaxWrites
    /\ \E k \in 1..Len(heap[mat.blk]) :
          heap' = [heap EXCEPT ![mat.blk][k] = 0]
    /\ writes' = writes + 1
    /\ op' = "write_mat"
    /\ chain' = "none"
    /\ UNCHANGED <<rowMajor, mat, array, result, err, reads, fault>>

\* Conversions of the model's matrices, handed to the caller and back.
Next ==
    \/ CallFromMatrixXf
    \/ CallToMatrixXf
    \/ WriteArray
    \/ WriteMat

Spec == Init /\ [][Next]_vars

\* Conversions of arrays the caller made itself.
NextBuf ==
    \/ NewBuffer
    \/ CallToMatrixXf
    \/ WriteArray

\* The model's own matrix plays no part here: it is the empty matrix.
InitEmpty == Init /\ mat.rows = 0 /\ mat.cols = 0

SpecBuf == InitEmpty /\ [][NextBuf]_vars


\* ===================================================== array interop layer
\* Two native matrices over heaps h1, h2 have the same shape and the same
\* element at every position.
SameMatrix(h1, m1, h2, m2) ==
    /\ m1.rows = m2.rows
    /\ m1.cols = m2.cols
    /\ \A i \in Rows(m1), j \in Cols(m1) :
          MatElem(h1, m1, i, j) = MatElem(h2, m2, i, j)

\* C1: PyArray_ToMatrixXf(PyArray_FromMatrixXf(M)) has the shape of M and the
\* element of M at every position, under both build settings.
C1_RoundTrip ==
    chain = "from_to" => SameMatrix(heap, result, heap, mat)

\* C5: PyArray_FromMatrixXf(M) is a float32 2-D array of shape rows x cols in
\* the build's storage order whose logical element [i, j] is M(i, j).
C5_FromMatrixLayout ==
    chain \in {"from", "from_to"} =>
        /\ array.type = "f"
        /\ array.nd = 2
        /\ array.dims = <<mat.rows, mat.cols>>
        /\ (IF rowMajor THEN "C" ELSE "F") \in array.flags
        /\ \A i \in Rows(mat), j \in Cols(mat) :
              BufElem(heap, array, i, j) = MatElem(heap, mat, i, j)

\* What does hold of both builds: the array is float32, 2-D, of M's shape, and
\* its storage is M's storage slot by slot (supporting fact, not a claim).
FromMatrixFlatCopy ==
    chain \in {"from", "from_to"} =>
        /\ array.type = "f" /\ array.nd = 2
        /\ array.dims = <<mat.rows, mat.cols>>
        /\ "F" \in array.flags
        /\ heap[array.blk] = heap[mat.blk]

\* In the column-major build the round trip and the layout are as claimed
\* (supporting fact, not a claim).
ColMajorBuildRoundTrip ==
    ~rowMajor =>
        /\ (chain = "from_to" => SameMatrix(heap, result, heap, mat))
        /\ (chain \in {"from", "from_to"} =>
               \A i \in Rows(mat), j \in Cols(mat) :
                  BufElem(heap, array, i, j) = MatElem(heap, mat, i, j))

\* C6: the array PyArray_FromMatrixXf returns never shares storage with M:
\* the caller's writes to the array leave M's elements unchanged and the
\* model's writes to M leave the array's elements unchanged.
C6_FreshArray ==
    /\ [](array # NoArray => array.blk # mat.blk)
    /\ [][/\ (op' = "write_array" => heap'[mat.blk] = heap[mat.blk])
          /\ (op' = "write_mat" /\ array # NoArray =>
                 heap'[array.blk] = heap[array.blk])]_vars

C6_Witness ==
    /\ op = "write_array"
    /\ array # NoArray
    /\ mat.rows * mat.cols >= 2
    /\ 0 \notin {heap[mat.blk][k] : k \in 1..Len(heap[mat.blk])}

\* C8: a failed allocation inside PyArray_FromMatrixXf is reported to the
\* caller as a resource error: no crash, no write through the null pointer,
\* no array returned.
C8_AllocFailureReported ==
    op = "from_nomem" =>
        /\ fault = ""
        /\ err = "MemoryError"
        /\ array = NoArray

\* ------------------------------------------------- caller-made arrays
\* The conversion with the two contiguity flags tested in the other order.
ToMatrixXfCFirst(h, a, rowMajorBuild) ==
    IF a.type # "f" THEN Throw(h, TypeMsg)
    ELSE IF a.nd \notin {1, 2} THEN Throw(h, DimMsg)
    ELSE IF "C" \in a.flags
    THEN MapToMatrixXf(h, a.blk, TRUE, a.dims[1],
                       IF a.nd = 1 THEN 1 ELSE a.dims[2], rowMajorBuild)
    ELSE IF "F" \in a.flags
    THEN MapToMatrixXf(h, a.blk, FALSE, a.dims[1],
                       IF a.nd = 1 THEN 1 ELSE a.dims[2], rowMajorBuild)
    ELSE Throw(h, ContigMsg)

\* C2: a contiguous float32 2-D array of shape r x c converts to the r x c
\* matrix of its logical elements, whichever flag is tested first.
C2_ToMatrixElements ==
    (op = "to" /\ array.type = "f" /\ array.nd = 2 /\ array.flags # {}) =>
        /\ err = ""
        /\ result.rows = array.dims[1]
        /\ result.cols = array.dims[2]
        /\ \A i \in Rows(result), j \in Cols(result) :
              MatElem(heap, result, i, j) = BufElem(heap, array, i, j)
        /\ LET alt == ToMatrixXfCFirst(heap, array, rowMajor)
           IN alt.err = "" /\ SameMatrix(alt.heap, alt.result, heap, result)

C2_Witness ==
    /\ op = "to" /\ err = ""
    /\ array.type = "f" /\ array.nd = 2
    /\ array.flags = {"C", "F"}
    /\ array.dims[1] = 1 /\ array.dims[2] >= 2
    /\ result.cols = array.dims[2]

\* C3 as stated: every defect is answered by the condition that names it, in
\* particular every array of a rank other than 1 or 2 by the
\* dimensionality condition; nothing is read or returned on failure.
C3_AsStated ==
    op = "to" =>
        /\ (array.type # "f" => err = TypeMsg)
        /\ (array.nd \notin {1, 2} => err = DimMsg)
        /\ (array.type = "f" /\ array.nd \in {1, 2} /\ array.flags = {}
               => err = ContigMsg)
        /\ (err # "" => result = NoMatrix /\ reads = {})

\* C3 (amended): the element type is tested first, so the dimensionality
\* condition answers the float32 arrays of a rank other than 1 or 2; the
\* three conditions are pairwise distinct; on failure nothing is read,
\* allocated or returned.
C3_Rejection ==
    /\ Cardinality({TypeMsg, DimMsg, ContigMsg}) = Cardinality({"t", "d", "c"})
    /\ op = "to" =>
        /\ (array.type # "f" => err = TypeMsg)
        /\ (array.type = "f" /\ array.nd \notin {1, 2} => err = DimMsg)
        /\ (array.type = "f" /\ array.nd \in {1, 2} /\ array.flags = {}
               => err = ContigMsg)
        /\ (array.type = "f" /\ array.nd \in {1, 2} /\ array.flags # {}
               => err = "")
        /\ (err # "" => result = NoMatrix /\ reads = {} /\ Len(heap) = array.blk)

C3_Witness ==
    /\ op = "to"
    /\ array.type # "f" /\ array.nd \notin {1, 2}
    /\ err = TypeMsg
    /\ result = NoMatrix

\* C4: a contiguous float32 1-D array of length N converts to the N x 1
\* matrix of its elements, whichever contiguity flags it carries.
C4_VectorConvention ==
    (op = "to" /\ array.type = "f" /\ array.nd = 1 /\ array.flags # {}) =>
        /\ err = ""
        /\ result.rows = array.dims[1]
        /\ result.cols = 1
        /\ \A i \in Rows(result) :
              MatElem(heap, result, i, 0) = BufElem(heap, array, i, 0)

C4_Witness ==
    /\ op = "to" /\ err = ""
    /\ array.type = "f" /\ array.nd = 1 /\ array.flags = {"C"}
    /\ array.dims[1] >= 2
    /\ result.rows = array.dims[1]

\* C7 as stated: the matrix PyArray_ToMatrixXf returns is a view that shares
\* the array's storage.
C7_AsStated ==
    (op = "to" /\ err = "") => result.blk = array.blk

\* C7 (amended): the matrix PyArray_ToMatrixXf returns owns a copy of the
\* array's elements: it never shares storage with the array, and a write to
\* the array after the conversion leaves every element of it unchanged.
C7_OwningCopy ==
    /\ [](result # NoMatrix => result.blk # array.blk)
    /\ [][(result # NoMatrix /\ op' = "write_array") =>
             /\ result' = result
             /\ heap'[result.blk] = heap[result.blk]]_vars

C7_Witness ==
    /\ op = "write_array"
    /\ result # NoMatrix
    /\ result.rows * result.cols >= 2
    /\ 0 \in {heap[array.blk][k] : k \in 1..(result.rows * result.cols)}
    /\ 0 \notin {heap[result.blk][k] : k \in 1..(result.rows * result.cols)}

====
